---- MODULE Spec2Model ----
(***************************************************************************)
(* tidal: a binary logging library (include/tidal/tidal.h).  A Log owns    *)
(* one std::ofstream and hands out stream handles; every handle operation  *)
(* is a chain of `log_ << x` insertions, each of which is one or two       *)
(* operations on the ofstream.  The model keeps the bytes the ofstream has *)
(* accepted, its failbit, the id counter and the handles the caller holds. *)
(*                                                                         *)
(* Target: LP64 little-endian host (sizeof(unsigned long) = 8,             *)
(* sizeof(unsigned int) = 4, sizeof(bool) = 1).                            *)
(***************************************************************************)
EXTENDS Integers, Sequences, FiniteSets, TLC

VARIABLES
  file_,      \* Log::file_: the bytes the ofstream has accepted, in order
  failbit,    \* Log::file_: TRUE once the stream is in a failed state
  next_id_,   \* Log::next_id_
  handles,    \* the shared_ptr<Stream> handles returned so far, in order
  alive,      \* the Log object exists (constructed, not yet destroyed)
  call,       \* the last call the caller made and how it ended
  ncalls,     \* number of calls made so far
  faulty,     \* environment: the destination will stop accepting writes
  quota       \* environment: ofstream operations still accepted if faulty

vars == <<file_, failbit, next_id_, handles, alive, call, ncalls, faulty, quota>>

(* ----------------------------- bounds ---------------------------------- *)
MaxCalls == 4     \* calls the caller makes on one Log
MaxQuota == 10    \* ofstream operations a faulty destination accepts at most

(* ------------------------- enum class ScalarType ----------------------- *)
u8 == 0
i8 == 1
u16 == 2
i16 == 3
u32 == 4
i32 == 5
u64 == 6
i64 == 7
f32 == 8
f64 == 9
boolean == 10

(* The C++ types with a resolve_scalar_type specialisation. *)
SupportedTypes ==
  {"uint8_t", "int8_t", "uint16_t", "int16_t", "uint32_t", "int32_t",
   "uint64_t", "int64_t", "float", "double", "bool"}

resolve_scalar_type(T) ==
  CASE T = "uint8_t" -> u8
    [] T = "int8_t" -> i8
    [] T = "uint16_t" -> u16
    [] T = "int16_t" -> i16
    [] T = "uint32_t" -> u32
    [] T = "int32_t" -> i32
    [] T = "uint64_t" -> u64
    [] T = "int64_t" -> i64
    [] T = "float" -> f32
    [] T = "double" -> f64
    [] T = "bool" -> boolean

(* ------------------------- enum class DataClass ------------------------ *)
SCALAR == 0
VECTOR == 1
MATRIX == 2

(* --------------------------- enum class Marker ------------------------- *)
METADATA == 165
LABELS == 102
DATA == 219

(* sizeof(T) *)
SizeOf(T) ==
  CASE T \in {"uint8_t", "int8_t", "bool"} -> 1
    [] T \in {"uint16_t", "int16_t"} -> 2
    [] T \in {"uint32_t", "int32_t", "float"} -> 4
    [] T \in {"uint64_t", "int64_t", "double"} -> 8

(* Object representation of the integer n in a w-byte integer type:        *)
(* little-endian two's complement, i.e. n modulo 2^(8w).                   *)
RECURSIVE ObjRep(_, _)
ObjRep(n, w) == IF w = 0 THEN <<>> ELSE <<n % 256>> \o ObjRep(n \div 256, w - 1)

RECURSIVE Flatten(_)
Flatten(chunks) ==
  IF chunks = <<>> THEN <<>> ELSE Head(chunks) \o Flatten(Tail(chunks))

(* --------------------------- Log::operator<< --------------------------- *)
(* An insertion `log_ << x` is a list of ofstream operations; an operation *)
(* is written as the byte sequence it hands to the stream.                 *)

\* operator<<(const std::string&): file_.write(c_str, size); file_ << '\0'
InsertString(s) == << s, <<0>> >>

\* operator<<(const T&): file_.write(&data, sizeof(T)); rep is the object
\* representation of data, sizeof(T) bytes long
InsertValue(rep) == << rep >>

\* sizeof(Eigen::Matrix<T, rows, cols>) bytes: a fixed-size matrix is plain
\* storage of its rows*cols coefficients, in storage order
MatrixObjRep(m) == Flatten(m.coeffs)

\* fault variant: data.size() bytes from data.data(), as the body of the
\* overload for Eigen::Matrix reads
InsertMatrix_size_bytes(m) == InsertValue(SubSeq(MatrixObjRep(m), 1, m.rows * m.cols))

\* `log_ << data` for an Eigen::Matrix.  The overload taking
\* Eigen::Matrix<T, rows, cols> declares rows and cols as unsigned int while
\* Eigen's parameters are int, so deduction fails for it and the generic
\* operator<<(const T&) is the one called: it writes the object itself.
InsertMatrix(m) == InsertValue(MatrixObjRep(m))

(* ------------------------------ Log::Stream ---------------------------- *)
\* fault variant: the header is not written at declaration
write_header_deferred(id, name, format) == <<>>

write_header(id, name, format) ==
  InsertValue(<<METADATA>>) \o InsertValue(ObjRep(id, 4)) \o InsertString(name)
    \o format

write_data_prefix(id, timestamp) ==
  InsertValue(<<DATA>>) \o InsertValue(ObjRep(id, 4))
    \o InsertValue(ObjRep(timestamp, 8))

(* --------------------------- Log::ScalarStream ------------------------- *)
RECURSIVE format_recurse(_)
format_recurse(Ts) ==
  IF Ts = <<>> THEN <<>>
  ELSE InsertValue(<<resolve_scalar_type(Head(Ts))>>) \o format_recurse(Tail(Ts))

ScalarStream_write_format(Ts) ==
  InsertValue(<<SCALAR>>) \o InsertValue(ObjRep(Len(Ts), 4)) \o format_recurse(Ts)

\* data: the parameter values, already of the declared types Ts
RECURSIVE log_recurse(_)
log_recurse(data) ==
  IF data = <<>> THEN <<>>
  ELSE InsertValue(Head(data)) \o log_recurse(Tail(data))

\* defined for one label or more: no overload takes an empty argument list
RECURSIVE label_recurse(_)
label_recurse(labels) ==
  IF Len(labels) = 1 THEN InsertString(labels[1])
  ELSE InsertString(Head(labels)) \o label_recurse(Tail(labels))

set_labels_insertions(id, labels) ==
  InsertValue(<<LABELS>>) \o InsertValue(ObjRep(id, 4)) \o label_recurse(labels)

\* set_labels(Labels...) takes part in overload resolution only when
\* sizeof...(Labels) == sizeof...(Ts); its body then calls label_recurse
set_labels_compiles(Ts, labels) == Len(labels) = Len(Ts) /\ Len(labels) >= 1

(* ----------------------- VectorStream / MatrixStream ------------------- *)
\* fault variant: element count inserted before the type tag
VectorStream_write_format_count_first(T, elements) ==
  InsertValue(<<VECTOR>>) \o InsertValue(ObjRep(elements, 4))
    \o InsertValue(<<resolve_scalar_type(T)>>)

VectorStream_write_format(T, elements) ==
  InsertValue(<<VECTOR>>) \o InsertValue(<<resolve_scalar_type(T)>>)
    \o InsertValue(ObjRep(elements, 4))

MatrixStream_write_format(T, rows, cols) ==
  InsertValue(<<MATRIX>>) \o InsertValue(<<resolve_scalar_type(T)>>)
    \o InsertValue(ObjRep(rows, 4)) \o InsertValue(ObjRep(cols, 4))

(* ------------------------------ fixtures ------------------------------- *)
(* A scalar argument is a typed value: its static type, its object         *)
(* representation, and for an int its number.                              *)
TypedValue(T, rep, n) == [type |-> T, rep |-> rep, num |-> n]

SampleRep(T) ==
  CASE T = "int32_t" -> <<202, 16, 0, 0>>                     \* 4298
    [] T = "float" -> <<154, 153, 5, 65>>                     \* 8.35f
    [] T = "double" -> <<164, 112, 61, 10, 215, 113, 132, 64>> \* 654.23
    [] T = "bool" -> <<1>>
    [] OTHER -> [i \in 1..SizeOf(T) |-> 160 + i]

ExactArg(T) == TypedValue(T, SampleRep(T), IF T = "int32_t" THEN 4298 ELSE 0)
IntLiteral == TypedValue("int32_t", <<3, 0, 0, 0>>, 3)        \* the literal 3

\* IEEE-754 single and double representation of the ints the fixtures use
FloatRep(T, n) ==
  CASE T = "float" /\ n = 3 -> <<0, 0, 64, 64>>
    [] T = "double" /\ n = 3 -> <<0, 0, 0, 0, 0, 0, 8, 64>>
    [] T = "float" /\ n = 4298 -> <<0, 80, 134, 69>>
    [] T = "double" /\ n = 4298 -> <<0, 0, 0, 0, 0, 202, 176, 64>>

\* a fixed-size Eigen::Matrix<T, rows, cols>
Container(T, r, c) ==
  [type |-> T, rows |-> r, cols |-> c,
   coeffs |-> [i \in 1..(r * c) |-> ObjRep(16 * i + 1, SizeOf(T))]]

NoContainer == [type |-> "uint8_t", rows |-> 0, cols |-> 0, coeffs |-> <<>>]

ScalarDecls ==
  { [name |-> <<83>>, Ts |-> <<"int32_t", "float", "double">>],
    [name |-> <<>>, Ts |-> <<>>] }
VectorDecls == { [name |-> <<86, 101, 99>>, T |-> "uint16_t", elements |-> 3] }
MatrixDecls == { [name |-> <<77>>, T |-> "float", rows |-> 2, cols |-> 3] }

Timestamps == {4000, 305419896}
LabelPool == << <<97>>, <<98, 114>>, <<99>>, <<100>> >>

\* argument lists for a scalar stream of types Ts: of the right arity (every
\* argument of its field's type, or every argument the int literal), one
\* short and one long
ArgLists(Ts) ==
  LET exact == [i \in 1..Len(Ts) |-> ExactArg(Ts[i])]
  IN  {exact, [i \in 1..Len(Ts) |-> IntLiteral], Append(exact, IntLiteral)}
        \cup (IF Ts = <<>> THEN {} ELSE {SubSeq(exact, 1, Len(Ts) - 1)})

\* label lists for a stream of n fields: n labels, one fewer, one more
LabelLists(n) ==
  {SubSeq(LabelPool, 1, k) : k \in {n - 1, n, n + 1} \cap 0..Len(LabelPool)}

\* containers a caller passes to a vector or matrix stream: the declared
\* shape, a wrong shape, a wrong coefficient type
Containers(T, r, c) ==
  {Container(T, r, c), Container(T, r + 1, c), Container("uint8_t", r, c)}

(* --------------------------- the destination --------------------------- *)
\* how many of the ofstream operations `ops` the stream accepts: none once it
\* has failed, and a faulty destination accepts only `quota` more
Accepted(ops) ==
  IF failbit THEN 0
  ELSE IF faulty /\ quota < Len(ops) THEN quota
  ELSE Len(ops)

\* the ofstream operations of one call, in order; the first one refused sets
\* the failbit, after which every operation is a no-op
Emit(ops) ==
  /\ file_' = file_ \o Flatten(SubSeq(ops, 1, Accepted(ops)))
  /\ failbit' = (failbit \/ Accepted(ops) < Len(ops))
  /\ quota' = IF faulty THEN quota - Accepted(ops) ELSE quota

(* ------------------------------ the caller ----------------------------- *)
\* what the caller sees of a call: every member function returns void or the
\* handle, nothing throws (the ofstream's exception mask is empty) and no
\* stream state is inspected, so a call that compiles always "returned"
Call(op, h, name, labels, timestamp, args, container, outcome, ops) ==
  [op |-> op, h |-> h, name |-> name, labels |-> labels, timestamp |-> timestamp,
   args |-> args, container |-> container, outcome |-> outcome,
   refused |-> Len(ops) - Accepted(ops), before |-> Len(file_),
   next_before |-> next_id_]

\* a call the compiler rejects: no code runs
IllFormed(op, h, labels, timestamp, args, container) ==
  /\ call' = Call(op, h, <<>>, labels, timestamp, args, container, "ill-formed", <<>>)
  /\ ncalls' = ncalls + 1
  /\ UNCHANGED <<file_, failbit, next_id_, handles, alive, faulty, quota>>

\* initialisation of a by-value parameter of type T from the argument: the
\* argument itself, or the int converted to T
Convert(arg, T) ==
  IF arg.type = T THEN arg.rep
  ELSE CASE T = "bool" -> <<IF arg.num = 0 THEN 0 ELSE 1>>
         [] T \in {"float", "double"} -> FloatRep(T, arg.num)
         [] OTHER -> ObjRep(arg.num, SizeOf(T))

\* fault variant: the value of `++next_id_`
PreIncrement(n) == n + 1

\* the value of `next_id_++`
PostIncrement(n) == n

(* ---------------------------------- Log -------------------------------- *)
\* after Log(filename): the file is open and empty, or could not be opened
\* and the stream has its failbit set; the constructor returns either way
Constructed(opened) ==
  /\ file_ = <<>>
  /\ failbit = ~opened
  /\ next_id_ = 0
  /\ handles = <<>>
  /\ alive = TRUE
  /\ ncalls = 0
  /\ call = [Call("Log", 0, <<>>, <<>>, 0, <<>>, NoContainer, "returned", <<>>)
               EXCEPT !.refused = IF opened THEN 0 ELSE 1, !.before = 0,
                      !.next_before = 0]

add_stream(op, name, handle, format) ==
  /\ alive /\ ncalls < MaxCalls
  /\ next_id_' = next_id_ + 1
  /\ Emit(write_header(handle.id, name, format))
  /\ handles' = Append(handles, handle)
  /\ call' = Call(op, Len(handles) + 1, name, <<>>, 0, <<>>, NoContainer,
                  "returned", write_header(handle.id, name, format))
  /\ ncalls' = ncalls + 1
  /\ UNCHANGED <<alive, faulty>>

add_scalar_stream(name, Ts) ==
  add_stream("add_scalar_stream", name,
             [id |-> PostIncrement(next_id_), class |-> "ScalarStream", Ts |-> Ts,
              rows |-> 0, cols |-> 0],
             ScalarStream_write_format(Ts))

add_vector_stream(name, T, elements) ==
  add_stream("add_vector_stream", name,
             [id |-> PostIncrement(next_id_), class |-> "VectorStream", Ts |-> <<T>>,
              rows |-> elements, cols |-> 1],
             VectorStream_write_format(T, elements))

add_matrix_stream(name, T, rows, cols) ==
  add_stream("add_matrix_stream", name,
             [id |-> PostIncrement(next_id_), class |-> "MatrixStream", Ts |-> <<T>>,
              rows |-> rows, cols |-> cols],
             MatrixStream_write_format(T, rows, cols))

Written(op, h, labels, timestamp, args, container, ops) ==
  /\ Emit(ops)
  /\ call' = Call(op, h, <<>>, labels, timestamp, args, container, "returned", ops)
  /\ ncalls' = ncalls + 1
  /\ UNCHANGED <<next_id_, handles, alive, faulty>>

set_labels(h, labels) ==
  /\ alive /\ ncalls < MaxCalls
  /\ handles[h].class = "ScalarStream"
  /\ IF set_labels_compiles(handles[h].Ts, labels)
     THEN Written("set_labels", h, labels, 0, <<>>, NoContainer,
                  set_labels_insertions(handles[h].id, labels))
     ELSE IllFormed("set_labels", h, labels, 0, <<>>, NoContainer)

\* log(unsigned long timestamp, Ts... data): viable for exactly
\* sizeof...(Ts) arguments, each converted to its parameter's type
ScalarStream_log(h, timestamp, args) ==
  /\ alive /\ ncalls < MaxCalls
  /\ handles[h].class = "ScalarStream"
  /\ IF Len(args) = Len(handles[h].Ts)
     THEN Written("log", h, <<>>, timestamp, args, NoContainer,
                  write_data_prefix(handles[h].id, timestamp)
                    \o log_recurse([i \in 1..Len(args) |->
                                      Convert(args[i], handles[h].Ts[i])]))
     ELSE IllFormed("log", h, <<>>, timestamp, args, NoContainer)

\* const Eigen::Matrix<T, rows, cols>& binds to a fixed-size matrix of that
\* coefficient type and shape only
BindsTo(m, handle) ==
  m.type = handle.Ts[1] /\ m.rows = handle.rows /\ m.cols = handle.cols

container_log(class, h, timestamp, m) ==
  /\ alive /\ ncalls < MaxCalls
  /\ handles[h].class = class
  /\ IF BindsTo(m, handles[h])
     THEN Written("log", h, <<>>, timestamp, <<>>, m,
                  write_data_prefix(handles[h].id, timestamp) \o InsertMatrix(m))
     ELSE IllFormed("log", h, <<>>, timestamp, <<>>, m)

VectorStream_log(h, timestamp, m) == container_log("VectorStream", h, timestamp, m)
MatrixStream_log(h, timestamp, m) == container_log("MatrixStream", h, timestamp, m)

\* fault variant: a terminator byte written on destruction
LogDestructor_trailer ==
  /\ alive
  /\ alive' = FALSE
  /\ file_' = file_ \o <<0>>
  /\ call' = Call("~Log", 0, <<>>, <<>>, 0, <<>>, NoContainer, "returned", <<>>)
  /\ UNCHANGED <<failbit, next_id_, handles, ncalls, faulty, quota>>

\* ~Log(): file_.close()
LogDestructor ==
  /\ alive
  /\ alive' = FALSE
  /\ call' = Call("~Log", 0, <<>>, <<>>, 0, <<>>, NoContainer, "returned", <<>>)
  /\ UNCHANGED <<file_, failbit, next_id_, handles, ncalls, faulty, quota>>

(* --------------------------- specifications ---------------------------- *)
\* the handles of one stream class the caller holds
HandlesOf(class) == {h \in 1..Len(handles) : handles[h].class = class}

Next ==
  \/ \E d \in ScalarDecls : add_scalar_stream(d.name, d.Ts)
  \/ \E d \in VectorDecls : add_vector_stream(d.name, d.T, d.elements)
  \/ \E d \in MatrixDecls : add_matrix_stream(d.name, d.T, d.rows, d.cols)
  \/ \E h \in HandlesOf("ScalarStream") :
       \E labels \in LabelLists(Len(handles[h].Ts)) : set_labels(h, labels)
  \/ \E h \in HandlesOf("ScalarStream"), t \in Timestamps :
       \E args \in ArgLists(handles[h].Ts) : ScalarStream_log(h, t, args)
  \/ \E h \in HandlesOf("VectorStream"), t \in Timestamps :
       \E m \in Containers(handles[h].Ts[1], handles[h].rows, 1) :
         VectorStream_log(h, t, m)
  \/ \E h \in HandlesOf("MatrixStream"), t \in Timestamps :
       \E m \in Containers(handles[h].Ts[1], handles[h].rows, handles[h].cols) :
         MatrixStream_log(h, t, m)
  \/ LogDestructor

\* a destination that opens and accepts every write
Init == faulty = FALSE /\ quota = 0 /\ Constructed(TRUE)
Spec == Init /\ [][Next]_vars

\* a destination that cannot be opened, or stops accepting writes
InitIO ==
  /\ faulty = TRUE
  /\ \/ quota = 0 /\ Constructed(FALSE)
     \/ quota \in 0..MaxQuota /\ Constructed(TRUE)
SpecIO == InitIO /\ [][Next]_vars

(***************************************************************************)
(* The file format as documented: record layouts and a reader of them.     *)
(* These are written from the format description, independently of the     *)
(* operators above, and are what the properties compare the file against.  *)
(***************************************************************************)
FormatTypes ==
  <<"uint8_t", "int8_t", "uint16_t", "int16_t", "uint32_t", "int32_t",
    "uint64_t", "int64_t", "float", "double", "bool">>
FormatWidths == <<1, 1, 2, 2, 4, 4, 8, 8, 4, 8, 1>>

\* the one-byte tag of a type: u8=0, i8=1, ..., f64=9, bool=10
TagOf(T) == (CHOOSE i \in 1..Len(FormatTypes) : FormatTypes[i] = T) - 1
\* the width in bytes of the type with a given tag
TagWidth(tag) == FormatWidths[tag + 1]

\* unsigned little-endian fields, for 0 <= n < 2^31
U32(n) == <<n % 256, (n \div 256) % 256, (n \div 65536) % 256, n \div 16777216>>
U64(n) == U32(n) \o <<0, 0, 0, 0>>

RECURSIVE Concat(_)
Concat(seqs) == IF seqs = <<>> THEN <<>> ELSE Head(seqs) \o Concat(Tail(seqs))

\* the payload size the schema of a handle fixes
PayloadSize(handle) ==
  CASE handle.class = "ScalarStream" ->
         Len(Concat([i \in 1..Len(handle.Ts) |->
                       [j \in 1..TagWidth(TagOf(handle.Ts[i])) |-> 0]]))
    [] handle.class = "VectorStream" -> handle.rows * TagWidth(TagOf(handle.Ts[1]))
    [] handle.class = "MatrixStream" ->
         handle.rows * handle.cols * TagWidth(TagOf(handle.Ts[1]))

MetadataRecord(name, handle) ==
  <<165>> \o U32(handle.id) \o name \o <<0>> \o
  CASE handle.class = "ScalarStream" ->
         <<0>> \o U32(Len(handle.Ts)) \o [i \in 1..Len(handle.Ts) |-> TagOf(handle.Ts[i])]
    [] handle.class = "VectorStream" ->
         <<1, TagOf(handle.Ts[1])>> \o U32(handle.rows)
    [] handle.class = "MatrixStream" ->
         <<2, TagOf(handle.Ts[1])>> \o U32(handle.rows) \o U32(handle.cols)

LabelsRecord(id, labels) ==
  <<102>> \o U32(id) \o Concat([i \in 1..Len(labels) |-> labels[i] \o <<0>>])

DataRecord(id, timestamp, payload) == <<219>> \o U32(id) \o U64(timestamp) \o payload

\* the bytes the last call appended
Appended == SubSeq(file_, call.before + 1, Len(file_))

(* ------------------------------- reader -------------------------------- *)
U32At(b, p) == b[p] + 256 * b[p + 1] + 65536 * b[p + 2] + 16777216 * b[p + 3]

\* position of the first 0x00 at or after p, 0 if there is none
NulFrom(b, p) ==
  LET zs == {j \in p..Len(b) : b[j] = 0}
  IN  IF zs = {} THEN 0 ELSE CHOOSE j \in zs : \A k \in zs : j <= k

NoRecord == [ok |-> FALSE, next |-> 0, marker |-> 0, id |-> 0, name |-> <<>>,
             kind |-> 0, tags |-> <<>>, rows |-> 0, cols |-> 0,
             labels |-> <<>>, payload |-> <<>>]

\* n strings starting at p: [ok, next, strs]
RECURSIVE ReadStrings(_, _, _)
ReadStrings(b, p, n) ==
  IF n = 0 THEN [ok |-> TRUE, next |-> p, strs |-> <<>>]
  ELSE LET z == NulFrom(b, p)
       IN  IF z = 0 THEN [ok |-> FALSE, next |-> p, strs |-> <<>>]
           ELSE LET rest == ReadStrings(b, z + 1, n - 1)
                IN  [ok |-> rest.ok, next |-> rest.next,
                     strs |-> <<SubSeq(b, p, z - 1)>> \o rest.strs]

ReadMetadata(b, p) ==
  LET z == NulFrom(b, p + 5)
      kind == b[z + 1]
      n == U32At(b, z + 2)
      done(next, tags, rows, cols) ==
        IF next - 1 > Len(b) \/ \E i \in 1..Len(tags) : tags[i] > 10 THEN NoRecord
        ELSE [NoRecord EXCEPT !.ok = TRUE, !.next = next, !.marker = 165,
                !.id = U32At(b, p + 1), !.name = SubSeq(b, p + 5, z - 1),
                !.kind = kind, !.tags = tags, !.rows = rows, !.cols = cols]
  IN  IF p + 4 > Len(b) \/ z = 0 \/ z + 1 > Len(b) THEN NoRecord
      ELSE CASE kind = 0 ->
                  IF z + 5 > Len(b) THEN NoRecord
                  ELSE done(z + 6 + n, SubSeq(b, z + 6, z + 5 + n), 0, 0)
             [] kind = 1 ->
                  IF z + 6 > Len(b) THEN NoRecord
                  ELSE done(z + 7, <<b[z + 2]>>, U32At(b, z + 3), 1)
             [] kind = 2 ->
                  IF z + 10 > Len(b) THEN NoRecord
                  ELSE done(z + 11, <<b[z + 2]>>, U32At(b, z + 3), U32At(b, z + 7))
             [] OTHER -> NoRecord

\* the schema declared for id among the records read so far
Declared(acc, id) == {k \in 1..Len(acc) : acc[k].marker = 165 /\ acc[k].id = id}

ReadLabels(b, p, acc) ==
  IF p + 4 > Len(b) \/ Declared(acc, U32At(b, p + 1)) = {} THEN NoRecord
  ELSE LET schema == acc[CHOOSE k \in Declared(acc, U32At(b, p + 1)) : TRUE]
           strs == ReadStrings(b, p + 5, Len(schema.tags))
       IN  IF ~strs.ok THEN NoRecord
           ELSE [NoRecord EXCEPT !.ok = TRUE, !.next = strs.next, !.marker = 102,
                   !.id = U32At(b, p + 1), !.labels = strs.strs]

ReadData(b, p, acc) ==
  IF p + 4 > Len(b) \/ Declared(acc, U32At(b, p + 1)) = {} THEN NoRecord
  ELSE LET schema == acc[CHOOSE k \in Declared(acc, U32At(b, p + 1)) : TRUE]
           size == CASE schema.kind = 0 ->
                          Len(Concat([i \in 1..Len(schema.tags) |->
                                        [j \in 1..TagWidth(schema.tags[i]) |-> 0]]))
                     [] schema.kind = 1 -> schema.rows * TagWidth(schema.tags[1])
                     [] schema.kind = 2 ->
                          schema.rows * schema.cols * TagWidth(schema.tags[1])
       IN  IF p + 12 + size > Len(b) THEN NoRecord
           ELSE [NoRecord EXCEPT !.ok = TRUE, !.next = p + 13 + size, !.marker = 219,
                   !.id = U32At(b, p + 1),
                   !.payload = SubSeq(b, p + 5, p + 12 + size)]

\* the complete records of b, in order, and whether they are all of b
RECURSIVE ReadFrom(_, _, _)
ReadFrom(b, p, acc) ==
  IF p > Len(b) THEN [records |-> acc, complete |-> TRUE]
  ELSE LET r == CASE b[p] = 165 -> ReadMetadata(b, p)
                  [] b[p] = 102 -> ReadLabels(b, p, acc)
                  [] b[p] = 219 -> ReadData(b, p, acc)
                  [] OTHER -> NoRecord
       IN  IF r.ok THEN ReadFrom(b, r.next, Append(acc, r))
           ELSE [records |-> acc, complete |-> FALSE]

Read(b) == ReadFrom(b, 1, <<>>)
Records == Read(file_).records
RecordsOf(recs, marker, id) ==
  {k \in 1..Len(recs) : recs[k].marker = marker /\ recs[k].id = id}

AddOps == {"add_scalar_stream", "add_vector_stream", "add_matrix_stream"}
Caller == IF call.h = 0 THEN [id |-> 0, class |-> "", Ts |-> <<>>, rows |-> 0, cols |-> 0]
          ELSE handles[call.h]
IsPrefix(a, b) == Len(a) <= Len(b) /\ SubSeq(b, 1, Len(a)) = a

(***************************************************************************)
(* Properties                                                              *)
(***************************************************************************)

\* C1: the k-th declared stream (counting from 0) gets StreamId k, whatever
\* the kinds and whatever log/set_labels calls come in between: the ids of
\* the handles, and of the METADATA records in the file, are 0, 1, 2, ... in
\* declaration order, and a log or set_labels call leaves next_id_ as it was.
C1_StreamIdsInDeclarationOrder ==
  LET meta == SelectSeq(Records, LAMBDA r : r.marker = 165)
  IN  /\ \A k \in 1..Len(handles) : handles[k].id = k - 1
      /\ next_id_ = Len(handles)
      /\ Len(meta) = Len(handles)
      /\ \A k \in 1..Len(meta) : meta[k].id = k - 1
      /\ call.op \in AddOps => Caller.id = call.next_before /\ next_id_ = call.next_before + 1
      /\ call.op \in {"log", "set_labels"} => next_id_ = call.next_before

\* a vector stream declared after two scalar streams and a log call has id 2
C1_Witness ==
  /\ call.op = "add_vector_stream" /\ call.h = 3 /\ Caller.id = 2
  /\ handles[1].class = "ScalarStream" /\ handles[2].class = "ScalarStream"
  /\ LET recs == Records IN \E k \in 1..Len(recs) : recs[k].marker = 219

\* C2: every add_*_stream call has appended, when it returns the handle,
\* exactly one metadata record: 0xA5, the 4-byte id, the name and a 0x00, the
\* kind tag, then the shape (Scalar: 4-byte field count and the type tags;
\* Vector: type tag and 4-byte element count; Matrix: type tag, 4-byte rows,
\* 4-byte cols); and the file never holds a second METADATA record of an id.
C2_MetadataRecordOnDeclaration ==
  LET recs == Records
  IN  /\ call.op \in AddOps =>
           /\ call.outcome = "returned" /\ call.h = Len(handles)
           /\ Appended = MetadataRecord(call.name, Caller)
      /\ \A h \in 1..Len(handles) :
           Cardinality(RecordsOf(recs, 165, handles[h].id)) = 1

\* a matrix stream is logged to after a vector stream was declared
C2_Witness ==
  /\ call.op = "log" /\ Caller.class = "MatrixStream" /\ call.outcome = "returned"
  /\ \E h \in 1..Len(handles) : handles[h].class = "VectorStream"

\* where field i of a scalar payload starts (0-based offset)
FieldOffset(Ts, i) ==
  Len(Concat([j \in 1..(i - 1) |-> [k \in 1..TagWidth(TagOf(Ts[j])) |-> 0]]))

\* C3: every log call that is made appends exactly one data record: 0xDB,
\* the 4-byte id of the handle's stream, the 8-byte timestamp, and a payload
\* of the size the schema fixes: the scalar values in field order at their
\* widths, or the container's coefficients in storage order.
C3_DataRecordOnLog ==
  (call.op = "log" /\ call.outcome = "returned") =>
    LET payload == SubSeq(Appended, 14, Len(Appended))
    IN  /\ Appended = DataRecord(Caller.id, call.timestamp, payload)
        /\ Len(payload) = PayloadSize(Caller)
        /\ Caller.class = "ScalarStream" =>
             \A i \in 1..Len(Caller.Ts) :
               call.args[i].type = Caller.Ts[i] =>
                 SubSeq(payload, FieldOffset(Caller.Ts, i) + 1,
                        FieldOffset(Caller.Ts, i) + TagWidth(TagOf(Caller.Ts[i])))
                   = call.args[i].rep
        /\ Caller.class # "ScalarStream" =>
             /\ Len(payload) = Len(call.container.coeffs) * TagWidth(TagOf(Caller.Ts[1]))
             /\ payload = Concat(call.container.coeffs)

\* (i32, f32, f64) logged with (4000, 4298, 8.35f, 654.23) on stream 0
C3_Witness ==
  /\ call.op = "log" /\ call.outcome = "returned"
  /\ Appended = <<219, 0, 0, 0, 0, 160, 15, 0, 0, 0, 0, 0, 0, 202, 16, 0, 0,
                  154, 153, 5, 65, 164, 112, 61, 10, 215, 113, 132, 64>>

\* C4: set_labels is valid at most once per handle: a second call fails and
\* appends nothing, so the file holds at most one LABELS record per StreamId.
C4_LabelsAtMostOnce ==
  LET recs == Records
  IN  /\ \A h \in 1..Len(handles) :
           Cardinality(RecordsOf(recs, 102, handles[h].id)) <= 1
      /\ (call.op = "set_labels"
            /\ \E k \in RecordsOf(recs, 102, Caller.id) : recs[k].next <= call.before + 1)
           => call.outcome # "returned" /\ Appended = <<>>

\* the arguments of a log call disagree with the schema of the handle
Mismatch ==
  IF Caller.class = "ScalarStream"
  THEN \/ Len(call.args) # Len(Caller.Ts)
       \/ \E i \in 1..Len(call.args) : call.args[i].type # Caller.Ts[i]
  ELSE \/ call.container.type # Caller.Ts[1]
       \/ call.container.rows # Caller.rows
       \/ call.container.cols # Caller.cols

\* C5: a log call whose arguments disagree with the schema (arity, a value
\* of another type than the field's, element count or type, shape) is
\* rejected and the file is as long after it as before.
C5_MismatchedLogRejected ==
  (call.op = "log" /\ Mismatch) =>
    call.outcome # "returned" /\ Len(file_) = call.before

\* C6: no call partially commits a record, also when the destination starts
\* rejecting writes: the file is always a concatenation of complete records.
C6_NoPartialRecord == Read(file_).complete

\* C7: a destination that cannot be opened makes construction fail, and a
\* write the destination rejects makes the call it happens in fail.
C7_SinkFailureReported == call.refused > 0 => call.outcome = "failed"

\* C8: set_labels with a label count other than the field count fails and
\* writes nothing, leaving the stream as it was; with exactly the field count
\* it appends one labels record: 0x66, the 4-byte id, each label and a 0x00.
C8_SetLabels ==
  call.op = "set_labels" =>
    IF Len(call.labels) = Len(Caller.Ts)
    THEN call.outcome = "returned" /\ Appended = LabelsRecord(Caller.id, call.labels)
    ELSE call.outcome # "returned" /\ Appended = <<>>

\* the marker of the record a call appends
MarkerOf(op) == CASE op \in AddOps -> 165 [] op = "set_labels" -> 102 [] op = "log" -> 219

\* C9: the file is append-only and has no header or trailer: it is empty
\* before the first call, a call that is made appends exactly its one record
\* after what was there (so the content is the records of the calls so far
\* in call order), and construction, destruction and rejected calls add
\* nothing.
C9_AppendOnlyRecords ==
  /\ [](ncalls = 0 => file_ = <<>>)
  /\ [][ /\ IsPrefix(file_, file_')
         /\ IF call'.op \in AddOps \cup {"set_labels", "log"} /\ call'.outcome = "returned"
            THEN LET old == Read(file_)
                     new == Read(file_')
                     last == new.records[Len(new.records)]
                 IN  /\ new.complete
                     /\ Len(new.records) = Len(old.records) + 1
                     /\ last.marker = MarkerOf(call'.op)
                     /\ last.id = handles'[call'.h].id
                     /\ last.next = Len(file_') + 1
                     /\ Len(file_') > Len(file_)
            ELSE file_' = file_ ]_vars

\* the Log is destroyed after three calls that each appended a record
C9_Witness ==
  ~alive /\ ncalls = 3 /\ LET r == Read(file_) IN r.complete /\ Len(r.records) = 3

\* C10: every DATA and LABELS record in the file carries the id of a stream
\* declared before it: exactly one METADATA record of that id precedes it,
\* and the id is below next_id_.
C10_DeclaredBeforeUse ==
  LET r == Read(file_)
      recs == r.records
  IN  /\ r.complete
      /\ \A k \in 1..Len(recs) :
           recs[k].marker \in {219, 102} =>
             /\ Cardinality({j \in 1..(k - 1) : recs[j].marker = 165
                                                 /\ recs[j].id = recs[k].id}) = 1
             /\ recs[k].id < next_id_

\* a stream whose LABELS record follows one of its DATA records
C10_Witness ==
  LET recs == Records
  IN  \E j, k \in 1..Len(recs) :
        /\ j < k /\ recs[j].marker = 219 /\ recs[k].marker = 102
        /\ recs[j].id = recs[k].id

====
